---- MODULE Spec2Model ----
(***************************************************************************)
(* Model of Risk_Analysis_Bot.py: the per-country report generation with   *)
(* its backoff decorator, the cleaning of the backend's text, the parsing  *)
(* of the generated reports into the summary table, and the assembly and   *)
(* single write of the final document.                                     *)
(*                                                                         *)
(* A text is a sequence of one-character strings.  Three kinds of element  *)
(* stand for a run of characters that no operation of the program splits:  *)
(* "<!--" and "-->" (the HTML comment markers around an embedded data      *)
(* block) and the payload names of JsonPayloads (the JSON text inside).    *)
(* "BQ" is the backquote character.                                        *)
(***************************************************************************)
EXTENDS Integers, Sequences, FiniteSets, TLC

\* ---------------------------------------------------------------- bounds
MaxCountries == 3
MaxPieces == 3

\* ------------------------------------------------------ program constants
max_tries == 3

Names == {"Albania", "Chad", "Fiji"}

\* Python's str ordering restricted to the country values that occur.
NameOrder == <<"Albania", "Chad", "Fiji", "Unknown">>

Fence == <<"BQ", "BQ", "BQ">>
FenceMarkdown == Fence \o <<"m", "a", "r", "k", "d", "o", "w", "n">>
Delimiter == <<"\n", "\n", "-", "-", "-", "\n", "\n">>

TableHeader == <<"Country", "Scenario Name", "Probability", "People Affected">>
TableSeparator == <<"---", "---", "---", "---">>
NoDataFoundRow == <<"No data found", "-", "-", "-">>
NoDataExtractedRow == <<"No data extracted", "-", "-", "-">>

\* ------------------------------------------------------------- str methods
IsSpace(c) == c \in {" ", "\n"}

RECURSIVE lstrip(_)
lstrip(s) == IF s # <<>> /\ IsSpace(Head(s)) THEN lstrip(Tail(s)) ELSE s

RECURSIVE rstrip(_)
rstrip(s) ==
    IF s # <<>> /\ IsSpace(s[Len(s)]) THEN rstrip(SubSeq(s, 1, Len(s) - 1)) ELSE s

strip(s) == rstrip(lstrip(s))

StartsWith(s, p) == Len(s) >= Len(p) /\ SubSeq(s, 1, Len(p)) = p

EndsWith(s, p) == Len(s) >= Len(p) /\ SubSeq(s, Len(s) - Len(p) + 1, Len(s)) = p

\* str.replace(old, ""): one left-to-right pass over non-overlapping matches.
RECURSIVE replace(_, _)
replace(s, old) ==
    IF s = <<>> THEN <<>>
    ELSE IF StartsWith(s, old)
         THEN replace(SubSeq(s, Len(old) + 1, Len(s)), old)
         ELSE <<Head(s)>> \o replace(Tail(s), old)

\* sep.join(parts)
RECURSIVE join(_, _)
join(sep, parts) ==
    IF parts = <<>> THEN <<>>
    ELSE IF Len(parts) = 1 THEN parts[1]
    ELSE parts[1] \o sep \o join(sep, Tail(parts))

\* ------------------------------------------------- generate_report_for_country
\* response.text.strip().replace(FenceMarkdown, "").replace(Fence, "").strip()
clean_text(text) == strip(replace(replace(strip(text), FenceMarkdown), Fence))

\* Mutant of BodyCatches: a body without the try, so the exception reaches the
\* decorator.
body_catches_nothing(exc) == FALSE

\* The except clause of the function body: "except Exception" catches every
\* exception the backend call raises.
BodyCatches(exc) == TRUE

None == [ok |-> FALSE, text |-> <<>>]

\* One run of the function body on a backend outcome: the cleaned text, None
\* when the body caught the exception, or the exception when it did not.
report_body(outcome) ==
    IF outcome.raised
    THEN IF BodyCatches("Exception")
         THEN [raised |-> FALSE, value |-> None]
         ELSE [raised |-> TRUE, value |-> None]
    ELSE [raised |-> FALSE, value |-> [ok |-> TRUE, text |-> clean_text(outcome.text)]]

\* "if report:" -- None and the empty string are both falsy.
Truthy(report) == report.ok /\ report.text # <<>>

\* @backoff.on_exception(backoff.expo, Exception, max_tries=3): what the decorator
\* does with the result of try number `tries` of the body: hand back a returned
\* value, retry after a raised exception while tries remain, re-raise otherwise.
backoff_decision(result, tries) ==
    IF ~result.raised THEN "return"
    ELSE IF tries < max_tries THEN "retry" ELSE "giveup"

\* ---------------------------------------------- parse_reports_and_build_table
\* JSON payloads a generated report may embed, by name: the dict each one decodes
\* to.  "J_BAD" is truncated JSON and "J_LIST" is a JSON array, neither in the table.
JsonValue ==
    ("J_Chad" :> [country |-> "Chad",
                  scenarios |-> <<[name |-> "Flood", probability |-> "30%",
                                   affected |-> "1000"]>>])
    @@ ("J_Albania" :> [country |-> "Albania",
                        scenarios |-> <<[name |-> "Unrest", probability |-> "10%",
                                         affected |-> "500"]>>])
    @@ ("J_Fiji" :> [country |-> "Fiji",
                     scenarios |-> <<[name |-> "Cyclone", probability |-> "40%",
                                      affected |-> "2000"],
                                     [name |-> "Drought", probability |-> "5%"]>>])
    @@ ("J_Chad2" :> [country |-> "Chad",
                      scenarios |-> <<[name |-> "Conflict", affected |-> "9000"]>>])
    @@ ("J_NoCountry" :> [scenarios |-> <<[name |-> "Influx"]>>])

JsonPayloads == DOMAIN JsonValue \cup {"J_BAD", "J_LIST"}

\* re.findall(r'', text, re.DOTALL): the empty pattern matches the empty string
\* at every position of the text, the end included.
re_findall(text) == [k \in 1..(Len(text) + 1) |-> <<>>]

\* json.loads(block): only a block that is exactly one JSON payload decodes.
json_loads(block) ==
    IF Len(block) = 1 /\ block[1] \in DOMAIN JsonValue
    THEN [exc |-> "none", isdict |-> TRUE, value |-> JsonValue[block[1]]]
    ELSE IF block = <<"J_LIST">>
    THEN [exc |-> "none", isdict |-> FALSE, value |-> <<>>]
    ELSE [exc |-> "JSONDecodeError", isdict |-> FALSE, value |-> <<>>]

\* dict.get(key, default)
Get(d, key, default) == IF key \in DOMAIN d THEN d[key] ELSE default

\* The body of the try of one loop iteration: the records the block appends, or
\* the exception it raises (a decoded value that is no dict has no .get).
parse_block(block) ==
    LET j == json_loads(block) IN
    IF j.exc # "none" THEN [exc |-> j.exc, records |-> <<>>]
    ELSE IF ~j.isdict THEN [exc |-> "AttributeError", records |-> <<>>]
    ELSE LET country_name == Get(j.value, "country", "Unknown")
             scenarios == Get(j.value, "scenarios", <<>>)
         IN [exc |-> "none",
             records |-> [k \in 1..Len(scenarios) |->
                 [Country |-> country_name,
                  ScenarioName |-> Get(scenarios[k], "name", "N/A"),
                  Probability |-> Get(scenarios[k], "probability", "N/A"),
                  PeopleAffected |-> Get(scenarios[k], "affected", "N/A")]]]

\* Mutant of LoopCatches: a loop without the except clause.
loop_catches_nothing(exc) == FALSE

\* "except json.JSONDecodeError": the one exception the loop catches.
LoopCatches(exc) == exc = "JSONDecodeError"

\* The for loop over json_blocks: the scenarios collected and the blocks
\* visited, or the exception that left the loop.
RECURSIVE parse_loop(_, _, _)
parse_loop(blocks, all_scenarios, visited) ==
    IF blocks = <<>>
    THEN [exc |-> "none", all_scenarios |-> all_scenarios, visited |-> visited]
    ELSE LET r == parse_block(Head(blocks)) IN
         IF r.exc = "none"
         THEN parse_loop(Tail(blocks), all_scenarios \o r.records, visited + 1)
         ELSE IF LoopCatches(r.exc)
         THEN parse_loop(Tail(blocks), all_scenarios, visited + 1)
         ELSE [exc |-> r.exc, all_scenarios |-> all_scenarios,
               visited |-> visited + 1]

Rank(name) == CHOOSE k \in 1..Len(NameOrder) : NameOrder[k] = name

\* list.sort(key=lambda x: x["Country"]): stable, ascending.
RECURSIVE insert_sorted(_, _)
insert_sorted(sorted, s) ==
    IF sorted = <<>> THEN <<s>>
    ELSE IF Rank(s.Country) < Rank(Head(sorted).Country)
         THEN <<s>> \o sorted
         ELSE <<Head(sorted)>> \o insert_sorted(Tail(sorted), s)

RECURSIVE sort_by_country(_)
sort_by_country(scenarios) ==
    IF scenarios = <<>> THEN <<>>
    ELSE insert_sorted(sort_by_country(SubSeq(scenarios, 1, Len(scenarios) - 1)),
                       scenarios[Len(scenarios)])

\* One table line per scenario: the f-string's four cells.
table_rows(scenarios) ==
    [k \in 1..Len(scenarios) |->
        <<scenarios[k].Country, scenarios[k].ScenarioName,
          scenarios[k].Probability, scenarios[k].PeopleAffected>>]

\* A table is its lines: the header, the separator, the rows.
sentinel_table(row) == <<TableHeader, TableSeparator, row>>

\* Mutant of build_table: the empty-list check left out.
build_table_without_sentinel(all_scenarios) ==
    <<TableHeader, TableSeparator>> \o table_rows(sort_by_country(all_scenarios))

\* From "if not all_scenarios" to the return: the sentinel table, or the sorted rows
\* under the header.
build_table(all_scenarios) ==
    IF all_scenarios = <<>>
    THEN sentinel_table(NoDataExtractedRow)
    ELSE <<TableHeader, TableSeparator>> \o table_rows(sort_by_country(all_scenarios))

\* The whole function: the table returned, or the exception raised.
parse_reports_and_build_table(all_reports_text) ==
    LET json_blocks == re_findall(all_reports_text) IN
    IF json_blocks = <<>>
    THEN [exc |-> "none", table |-> sentinel_table(NoDataFoundRow),
          all_scenarios |-> <<>>, blocks |-> 0, visited |-> 0]
    ELSE LET r == parse_loop(json_blocks, <<>>, 0) IN
         [exc |-> r.exc,
          table |-> IF r.exc = "none" THEN build_table(r.all_scenarios) ELSE <<>>,
          all_scenarios |-> r.all_scenarios,
          blocks |-> Len(json_blocks), visited |-> r.visited]

\* --------------------------------------------------------------------- main
VARIABLES
    pc,                  \* where the run is
    key_ok,              \* GEMINI_API_KEY is set
    list_ok,             \* List_of_Countries.txt exists
    countries,           \* the stripped non-blank lines of the list
    i,                   \* 1-based position of the loop in countries
    tries,               \* tries of the backend made for countries[i]
    raw,                 \* the text of the backend's last response
    report,              \* what generate_report_for_country returned
    returned,            \* per country started, what the function returned
    individual_reports,
    backend_calls,       \* the country of every backend call, in call order
    invoked,             \* the country of every call main makes of the function
    backoff_waits,       \* sleeps of the backoff decorator
    pace_count,          \* time.sleep(5) calls of the loop
    all_reports_text,
    parsed,              \* parse_reports_and_build_table's result
    final_report_content,
    write_attempts,      \* open("Risk_Report.md", "w") calls
    file_content,        \* what Risk_Report.md holds
    uncaught             \* the exception that ended the run, or "none"

vars == <<pc, key_ok, list_ok, countries, i, tries, raw, report, returned,
          individual_reports, backend_calls, invoked, backoff_waits, pace_count,
          all_reports_text, parsed, final_report_content, write_attempts,
          file_content, uncaught>>

Block(payload) == <<"<!--", payload, "-->">>

\* The shape the prompt asks for: the report inside one fenced markdown block.
Wrapped(body) == FenceMarkdown \o <<"\n">> \o body \o <<"\n">> \o Fence

\* Texts the backend may answer with: fenced reports that embed one data block,
\* one with a malformed block before a well-formed one, and an empty fenced body.
Responses ==
    { Wrapped(<<"c">> \o Block("J_Chad")),
      Wrapped(<<"a">> \o Block("J_Albania")),
      Wrapped(<<"f">> \o Block("J_Fiji")),
      Wrapped(<<"c">> \o Block("J_BAD") \o <<" ">> \o Block("J_Chad2")),
      Wrapped(<<>>) }

BackendOutcomes ==
    {[raised |-> TRUE, text |-> <<>>]} \cup {[raised |-> FALSE, text |-> t] : t \in Responses}

RECURSIVE SeqsUpTo(_, _)
SeqsUpTo(S, n) ==
    IF n = 0 THEN {<<>>}
    ELSE LET shorter == SeqsUpTo(S, n - 1) IN
         shorter \cup {Append(q, x) : q \in shorter, x \in S}

NoParse == [exc |-> "none", table |-> <<>>, all_scenarios |-> <<>>,
            blocks |-> 0, visited |-> 0]

NoDocument == [summary_table |-> <<>>, all_reports_text |-> <<>>]

NoFile == [written |-> FALSE, content |-> NoDocument]

Init ==
    /\ pc = "import"
    /\ key_ok \in BOOLEAN
    /\ list_ok \in BOOLEAN
    /\ countries \in SeqsUpTo(Names, MaxCountries)
    /\ i = 1
    /\ tries = 0
    /\ raw = <<>>
    /\ report = None
    /\ returned = <<>>
    /\ individual_reports = <<>>
    /\ backend_calls = <<>>
    /\ invoked = <<>>
    /\ backoff_waits = 0
    /\ pace_count = 0
    /\ all_reports_text = <<>>
    /\ parsed = NoParse
    /\ final_report_content = NoDocument
    /\ write_attempts = 0
    /\ file_content = NoFile
    /\ uncaught = "none"

\* Module level: without the API key the script raises ValueError before main.
Import ==
    /\ pc = "import"
    /\ IF key_ok
       THEN pc' = "read_list" /\ UNCHANGED uncaught
       ELSE pc' = "crashed" /\ uncaught' = "ValueError"
    /\ UNCHANGED <<key_ok, list_ok, countries, i, tries, raw, report, returned,
                   individual_reports, backend_calls, invoked, backoff_waits, pace_count,
                   all_reports_text, parsed, final_report_content,
                   write_attempts, file_content>>

\* Mutant of after_missing_list: the handler without its return.
after_missing_list_continue == "build"

\* Where main goes when the list file is missing: it logs and returns.
after_missing_list == "done"

\* The position of the loop after country number k.
loop_pc(k) == IF k <= Len(countries) THEN "generate" ELSE "build"

ReadList ==
    /\ pc = "read_list"
    /\ pc' = IF list_ok THEN loop_pc(1) ELSE after_missing_list
    /\ UNCHANGED <<key_ok, list_ok, countries, i, tries, raw, report, returned,
                   individual_reports, backend_calls, invoked, backoff_waits, pace_count,
                   all_reports_text, parsed, final_report_content,
                   write_attempts, file_content, uncaught>>

\* One try of generate_report_for_country(countries[i]) under the decorator: the
\* backend answers or raises, the body cleans or catches, the decorator decides.
Generate ==
    /\ pc = "generate"
    /\ i <= Len(countries)
    /\ \E outcome \in BackendOutcomes :
         LET result == report_body(outcome)
             decision == backoff_decision(result, tries + 1)
         IN /\ tries' = tries + 1
            /\ backend_calls' = Append(backend_calls, countries[i])
            /\ invoked' = IF tries = 0 THEN Append(invoked, countries[i]) ELSE invoked
            /\ raw' = outcome.text
            /\ report' = result.value
            /\ pc' = CASE decision = "return" -> "collect"
                       [] decision = "retry" -> "generate"
                       [] OTHER -> "crashed"
            /\ backoff_waits' = IF decision = "retry" THEN backoff_waits + 1
                                ELSE backoff_waits
            /\ uncaught' = IF decision = "giveup" THEN "Exception" ELSE uncaught
    /\ UNCHANGED <<key_ok, list_ok, countries, i, returned, individual_reports,
                   pace_count, all_reports_text, parsed, final_report_content,
                   write_attempts, file_content>>

\* Mutant of append_report: the report inserted at the front.
prepend_report(reports, r) == <<r>> \o reports

\* individual_reports.append(report)
append_report(reports, r) == Append(reports, r)

\* "if report: individual_reports.append(report)" and the progress log line.
Collect ==
    /\ pc = "collect"
    /\ individual_reports' = IF Truthy(report)
                             THEN append_report(individual_reports, report.text)
                             ELSE individual_reports
    /\ returned' = Append(returned, report)
    /\ pc' = "pace"
    /\ UNCHANGED <<key_ok, list_ok, countries, i, tries, raw, report,
                   backend_calls, invoked, backoff_waits, pace_count, all_reports_text,
                   parsed, final_report_content, write_attempts, file_content,
                   uncaught>>

\* Mutant of pace_sleeps: the sleep made only after a report was collected.
pace_sleeps_on_success(r) == IF Truthy(r) THEN 1 ELSE 0

\* The sleeps the loop makes after a country: time.sleep(5), unconditionally.
pace_sleeps(r) == 1

\* time.sleep(5), then the next country or the end of the loop.
Pace ==
    /\ pc = "pace"
    /\ pace_count' = pace_count + pace_sleeps(report)
    /\ i' = i + 1
    /\ tries' = 0
    /\ raw' = <<>>
    /\ report' = None
    /\ pc' = loop_pc(i + 1)
    /\ UNCHANGED <<key_ok, list_ok, countries, returned, individual_reports,
                   backend_calls, invoked, backoff_waits, all_reports_text, parsed,
                   final_report_content, write_attempts, file_content, uncaught>>

\* all_reports_text = "\n\n---\n\n".join(individual_reports), then the table.
Build ==
    /\ pc = "build"
    /\ LET text == join(Delimiter, individual_reports)
           r == parse_reports_and_build_table(text)
       IN /\ all_reports_text' = text
          /\ parsed' = r
          /\ IF r.exc = "none"
             THEN pc' = "assemble" /\ UNCHANGED uncaught
             ELSE pc' = "crashed" /\ uncaught' = r.exc
    /\ UNCHANGED <<key_ok, list_ok, countries, i, tries, raw, report, returned,
                   individual_reports, backend_calls, invoked, backoff_waits, pace_count,
                   final_report_content, write_attempts, file_content>>

\* The f-string of the final report: the title and the timestamp are fixed text
\* around the two parts kept here.
Assemble ==
    /\ pc = "assemble"
    /\ final_report_content' = [summary_table |-> parsed.table,
                                all_reports_text |-> all_reports_text]
    /\ pc' = "write"
    /\ UNCHANGED <<key_ok, list_ok, countries, i, tries, raw, report, returned,
                   individual_reports, backend_calls, invoked, backoff_waits, pace_count,
                   all_reports_text, parsed, write_attempts, file_content,
                   uncaught>>

\* open("Risk_Report.md", "w") and f.write: the file holds the document, or the
\* IOError is logged and the run ends all the same.
Write ==
    /\ pc = "write"
    /\ write_attempts' = write_attempts + 1
    /\ \E io_error \in BOOLEAN :
         file_content' = IF io_error THEN file_content
                         ELSE [written |-> TRUE, content |-> final_report_content]
    /\ pc' = "done"
    /\ UNCHANGED <<key_ok, list_ok, countries, i, tries, raw, report, returned,
                   individual_reports, backend_calls, invoked, backoff_waits, pace_count,
                   all_reports_text, parsed, final_report_content, uncaught>>

Next ==
    \/ Import
    \/ ReadList
    \/ Generate
    \/ Collect
    \/ Pace
    \/ Build
    \/ Assemble
    \/ Write

Spec == Init /\ [][Next]_vars

\* ------------------------------------------------- the cleaning on its own
Tag == <<"m", "a", "r", "k", "d", "o", "w", "n">>

Pieces == {Fence, <<"BQ">>, Tag, <<"x">>, <<" ">>, <<"\n">>}

RECURSIVE Concat(_)
Concat(parts) == IF parts = <<>> THEN <<>> ELSE Head(parts) \o Concat(Tail(parts))

Bodies == {Concat(parts) : parts \in SeqsUpTo(Pieces, MaxPieces)}

InitClean ==
    /\ pc = "respond"
    /\ raw \in Bodies \cup {Wrapped(b) : b \in Bodies}
    /\ key_ok = TRUE
    /\ list_ok = TRUE
    /\ countries = <<"Chad">>
    /\ i = 1
    /\ tries = 0
    /\ report = None
    /\ returned = <<>>
    /\ individual_reports = <<>>
    /\ backend_calls = <<>>
    /\ invoked = <<>>
    /\ backoff_waits = 0
    /\ pace_count = 0
    /\ all_reports_text = <<>>
    /\ parsed = NoParse
    /\ final_report_content = NoDocument
    /\ write_attempts = 0
    /\ file_content = NoFile
    /\ uncaught = "none"

\* The body of generate_report_for_country on a backend that answers raw.
Respond ==
    /\ pc = "respond"
    /\ report' = report_body([raised |-> FALSE, text |-> raw]).value
    /\ pc' = "collect"
    /\ UNCHANGED <<key_ok, list_ok, countries, i, tries, raw, returned,
                   individual_reports, backend_calls, invoked, backoff_waits,
                   pace_count, all_reports_text, parsed, final_report_content,
                   write_attempts, file_content, uncaught>>

NextClean == Respond

SpecClean == InitClean /\ [][NextClean]_vars

\* ------------------------------------------------------------------ claims
Range(s) == {s[k] : k \in 1..Len(s)}

PastBuild == {"assemble", "write", "done"}

\* The payloads of the data blocks a text embeds, in order of occurrence.
RECURSIVE EmbeddedPayloads(_)
EmbeddedPayloads(text) ==
    IF Len(text) < 3 THEN <<>>
    ELSE IF text[1] = "<!--" /\ text[2] \in JsonPayloads /\ text[3] = "-->"
         THEN <<text[2]>> \o EmbeddedPayloads(SubSeq(text, 4, Len(text)))
         ELSE EmbeddedPayloads(Tail(text))

\* The scenario objects of a sequence of well-formed payloads, each with the
\* country of its block, in encounter order.
RECURSIVE EmbeddedScenarios(_)
EmbeddedScenarios(payloads) ==
    IF payloads = <<>> THEN <<>>
    ELSE LET d == JsonValue[Head(payloads)] IN
         [k \in 1..Len(d.scenarios) |->
             [Country |-> Get(d, "country", "Unknown"), scenario |-> d.scenarios[k]]]
         \o EmbeddedScenarios(Tail(payloads))

AllWellFormed(text) == Range(EmbeddedPayloads(text)) \subseteq DOMAIN JsonValue

DataRows(table) == SubSeq(table, 3, Len(table))

\* C1: generate_report_for_country reports a failure (None) for a country only
\* when the backend has raised on all max_tries = 3 tries; a raise on fewer tries
\* followed by a success returns the cleaned text of the successful response.
C1_RetriesUntilMaxTries ==
    pc = "collect" =>
        IF report = None
        THEN tries = max_tries
        ELSE report.text = clean_text(raw)

\* C2: a failed generation never aborts the run: generation is invoked for the
\* countries one at a time in input order, the run never ends on an exception once
\* it has started, and after the last country it builds the table and assembles
\* and writes the document.
C2_FailureNeverAbortsRun ==
    /\ invoked = SubSeq(countries, 1, Len(invoked))
    /\ Len(invoked) \in {Len(returned), Len(returned) + 1}
    /\ (key_ok => pc # "crashed")
    /\ (list_ok /\ pc \in PastBuild \cup {"build"} => invoked = countries)
    /\ (list_ok /\ pc = "done" =>
            /\ Len(parsed.table) >= 3
            /\ final_report_content.summary_table = parsed.table)

C2_Witness ==
    /\ pc = "done"
    /\ list_ok
    /\ Len(countries) = 3
    /\ returned[1] = None
    /\ Truthy(returned[2])
    /\ returned[3] = None

RECURSIVE TextsOf(_)
TextsOf(reports) ==
    IF reports = <<>> THEN <<>> ELSE <<Head(reports).text>> \o TextsOf(Tail(reports))

\* C3: the reports section of the final document holds the reports of the
\* countries whose generation returned a non-empty report, in input order,
\* joined by the delimiter; the table's sort does not reorder it.
C3_ReportsInInputOrder ==
    list_ok /\ pc \in {"write", "done"} =>
        final_report_content.all_reports_text =
            join(Delimiter, TextsOf(SelectSeq(returned, Truthy)))

\* Two reports collected in an order that is not the order of their countries'
\* names: Chad's before Albania's.
C3_Witness ==
    /\ pc = "done"
    /\ Len(individual_reports) >= 2
    /\ "J_Chad" \in Range(individual_reports[1])
    /\ "J_Albania" \in Range(individual_reports[2])
    /\ file_content = [written |-> TRUE, content |-> final_report_content]

\* C4: when every data block embedded in the reports is well-formed and they hold
\* M scenario objects in total, exactly M scenario records are produced, and the
\* table has exactly M data rows when M > 0.
C4_OneRecordPerScenario ==
    pc \in PastBuild /\ list_ok /\ AllWellFormed(all_reports_text) =>
        LET M == Len(EmbeddedScenarios(EmbeddedPayloads(all_reports_text))) IN
        /\ Len(parsed.all_scenarios) = M
        /\ (M > 0 => Len(DataRows(parsed.table)) = M)

RowsOfCountry(rows, c) == SelectSeq(rows, LAMBDA row : row[1] = c)

\* C5: the data rows of the table are the records of the embedded scenarios sorted
\* by country name ascending, rows of one country in encounter order.
C5_RowsSortedByCountryStable ==
    pc \in PastBuild /\ list_ok /\ AllWellFormed(all_reports_text) =>
        LET E == EmbeddedScenarios(EmbeddedPayloads(all_reports_text))
            expected == [k \in 1..Len(E) |->
                <<E[k].Country, Get(E[k].scenario, "name", "N/A"),
                  Get(E[k].scenario, "probability", "N/A"),
                  Get(E[k].scenario, "affected", "N/A")>>]
            rows == DataRows(parsed.table)
        IN E # <<>> =>
            /\ Len(rows) = Len(expected)
            /\ \A k \in 1..(Len(rows) - 1) : Rank(rows[k][1]) <= Rank(rows[k + 1][1])
            /\ \A c \in Range(NameOrder) :
                   RowsOfCountry(rows, c) = RowsOfCountry(expected, c)

C7_NoDataSentinel ==
    list_ok /\ pc \in PastBuild =>
        /\ Len(parsed.table) >= 3
        /\ parsed.table[1] = TableHeader
        /\ parsed.table[2] = TableSeparator
        /\ (parsed.all_scenarios = <<>> =>
                /\ Len(parsed.table) = 3
                /\ parsed.table[3] \in {NoDataFoundRow, NoDataExtractedRow})

\* No report was collected, so the reports hold no data block at all.
C7_Witness ==
    /\ pc = "assemble"
    /\ Len(countries) >= 1
    /\ EmbeddedPayloads(all_reports_text) = <<>>
    /\ Len(parsed.table) = 3
    /\ parsed.table[3] = NoDataExtractedRow

IsWrapped(text) ==
    /\ Len(text) >= Len(FenceMarkdown) + Len(Fence) + 2
    /\ StartsWith(text, FenceMarkdown \o <<"\n">>)
    /\ EndsWith(text, <<"\n">> \o Fence)

WrappedBody(text) ==
    SubSeq(text, Len(FenceMarkdown) + 2, Len(text) - Len(Fence) - 1)

\* C8: cleaning a response that is a fenced wrapper around a body removes the
\* leading fence with its language tag and the trailing fence and nothing else:
\* the result is the stripped body, fence markers inside it included.
C8_OnlyWrappingFencesRemoved ==
    pc = "collect" /\ IsWrapped(raw) => report.text = strip(WrappedBody(raw))

\* C9: the pacing sleep is made exactly once per country, after its generation
\* has returned, success or failure, and before the next country starts; the
\* backoff's sleeps are counted apart.
C9_PacedOncePerCountry ==
    /\ (pc \in {"generate", "collect"} => pace_count = i - 1)
    /\ (pc = "generate" => Len(returned) = pace_count)
    /\ (pc = "pace" => pace_count = Len(returned) - 1)
    /\ (list_ok /\ pc \in PastBuild \cup {"build"} =>
            pace_count = Len(countries) /\ Len(returned) = Len(countries))

\* The second country is about to start after the first one failed and was paced.
C9_Witness ==
    /\ pc = "generate"
    /\ i = 2
    /\ tries = 0
    /\ returned = <<None>>
    /\ pace_count = 1

\* C10: the output file is opened for writing exactly once in a run that read the
\* country list, after the last country was processed and the table built, never
\* during the loop; with the list file missing there is no backend call and no
\* write.
C10_WrittenOnceAtEnd ==
    /\ write_attempts <= 1
    /\ (write_attempts = 1 =>
            /\ pc = "done"
            /\ list_ok
            /\ Len(returned) = Len(countries)
            /\ Len(parsed.table) >= 3)
    /\ (file_content.written =>
            write_attempts = 1 /\ file_content.content = final_report_content)
    /\ (list_ok /\ pc = "done" => write_attempts = 1)
    /\ (~list_ok => backend_calls = <<>> /\ write_attempts = 0)

C10_Witness ==
    /\ pc = "done"
    /\ list_ok
    /\ Len(countries) = 3
    /\ write_attempts = 1
    /\ file_content = [written |-> TRUE, content |-> final_report_content]

====
